---- MODULE Spec2Model ----
(***************************************************************************)
(* glc.h - OpenGL Common function library.                                 *)
(*                                                                         *)
(* A model of the four entry points of glc.h: glcMakeShaderProgram,        *)
(* glcSetUniformx, glcSetUniformxv and glcSetUniformMatx.  The library is  *)
(* single threaded, so one call runs at a time; pc is the position of the  *)
(* running call (a label M<line>, U<line>, V<line> or X<line> names the    *)
(* source line the next step starts at).  The C library (files, heap) and  *)
(* the OpenGL driver are the environment: whether a file opens, what it    *)
(* holds, whether an allocation succeeds and what the driver answers are   *)
(* chosen nondeterministically.                                            *)
(***************************************************************************)
EXTENDS Integers, Sequences, FiniteSets

(***************************************************************************)
(* Bounds of the model.                                                    *)
(***************************************************************************)
\* longest shader file, in bytes
MaxFileLen == 2
\* number of glcMakeShaderProgram calls in one behaviour
MaxBuilds == 2
\* program handles passed to the setters are 0..MaxProgram
MaxProgram == 2
\* the driver answers a location lookup with -1..MaxLocation
MaxLocation == 1
\* dimension arguments are 0..MaxDimension
MaxDimension == 5
\* amount arguments are -1..MaxAmount
MaxAmount == 2

(***************************************************************************)
(* Inputs.                                                                 *)
(***************************************************************************)
\* byte values a file may hold: NUL, an ordinary character, and 0xFF
Bytes == {0, 65, 255}

FileContents == UNION {[1..n -> Bytes] : n \in 0..MaxFileLen}

GL_FLOAT == "GL_FLOAT"
GL_INT == "GL_INT"
GL_UNSIGNED_INT == "GL_UNSIGNED_INT"

\* type tags a caller may pass: the three documented ones and two others
TypeTags == {GL_FLOAT, GL_INT, GL_UNSIGNED_INT, "GL_DOUBLE", "GL_BYTE"}

Names == {"color", "missing"}

ProgramArgs == 0..MaxProgram
Locations == (0 - 1)..MaxLocation
Dimensions == 0..MaxDimension
Amounts == (0 - 1)..MaxAmount

VARIABLES
    pc,             \* position of the running call, "idle" between calls
    fn,             \* the entry point that is running, "none" between calls
    ret,            \* its return value once pc = "return" (0 before)
    failedAt,       \* the step that made it fail, "none" otherwise
    calls,          \* library and driver calls issued by the running call
    \* glcMakeShaderProgram: locals and out-parameter
    length, source, vertexFile, fragmentFile, vertexShader, fragmentShader,
    programOut,
    contents,       \* the bytes of the file the call has read last
    \* host resources of the running call
    heap,           \* one entry per block calloc returned: "live", "freed", ...
    \* driver objects
    shaders,        \* shader objects that exist
    deleted,        \* shader objects glDeleteShader was called on
    programs,       \* program objects that exist
    nextId,         \* next object name the driver hands out
    created,        \* objects created by the running call
    builds,         \* glcMakeShaderProgram calls so far
    \* setters: arguments and locals
    program, name, type, dimension, amount, transpose, location, data,
    \* driver: the current program
    currentProgram,
    \* history: program of the last setter call that returned 1, and of the
    \* last setter call that got past the location lookup
    lastSuccess, lastPassed

builderVars == <<length, source, vertexFile, fragmentFile, vertexShader,
                 fragmentShader, programOut, contents, heap, shaders, deleted, programs,
                 nextId, created, builds>>

setterVars == <<program, name, type, dimension, amount, transpose, location,
                data, currentProgram, lastSuccess, lastPassed>>

vars == <<pc, fn, ret, failedAt, calls, builderVars, setterVars>>

(***************************************************************************)
(* The C library.                                                          *)
(***************************************************************************)
EOF == -1

\* the null pointer, as a source buffer: no block of the heap
NULL == [size |-> 0, bytes |-> <<>>, block |-> 0, overrun |-> FALSE]

Min(a, b) == IF a < b THEN a ELSE b

\* fgetc on a stream holding bytes, at offset pos: the byte as an int, or EOF
fgetc(bytes, pos) == IF pos < Len(bytes) THEN bytes[pos + 1] ELSE EOF

\* do { length++; } while(fgetc(file) != EOF);
RECURSIVE ScanToEOF(_, _, _)
ScanToEOF(bytes, pos, len) ==
    IF fgetc(bytes, pos) # EOF
    THEN ScanToEOF(bytes, pos + 1, len + 1)
    ELSE len + 1

\* the stream offset the scan leaves behind: one fgetc per iteration, the
\* last one answering EOF
OffsetAfterScan(bytes) == Len(bytes)

\* faulty variant of fseek: the stream is left where the scan ended
fseek_noRewind(pos, offset) == pos

\* fseek(file, offset, SEEK_SET)
fseek(pos, offset) == offset

\* the size glcMakeShaderProgram asks calloc for
SourceSize(len) == len + 1

\* calloc(n, sizeof(char)) that succeeds: n zero bytes, heap block number block
calloc(n, block) ==
    [size |-> n, bytes |-> [i \in 1..n |-> 0], block |-> block, overrun |-> FALSE]

\* fread(buf, 1, count, file) with the stream at offset pos: copies the bytes
\* the file still has, at most count; overrun when that passes the buffer
fread(buf, count, bytes, pos) ==
    LET k == Min(count, IF pos < Len(bytes) THEN Len(bytes) - pos ELSE 0)
    IN  [buf EXCEPT
            !.bytes = [i \in 1..buf.size |->
                          IF i <= k THEN bytes[pos + i] ELSE buf.bytes[i]],
            !.overrun = (k > buf.size)]

\* fopen that succeeds
OpenFile == [state |-> "open", closes |-> 0]

\* a FILE* that fopen was never called for
NoFile == [state |-> "unopened", closes |-> 0]

\* fopen that returned NULL
NullFile == [state |-> "NULL", closes |-> 0]

\* fclose(f)
fclose(f) ==
    [state |-> IF f.state = "open" THEN "closed" ELSE "badclose",
     closes |-> f.closes + 1]

\* free(p) for the heap h: free(NULL) does nothing
free(h, p) ==
    IF p = NULL THEN h
    ELSE [h EXCEPT ![p.block] = IF @ = "live" THEN "freed" ELSE "doublefree"]

\* an entry of the call log of glcMakeShaderProgram: the call, the object it
\* is about, and what it answered ("ok", "fail", or "done" when the code
\* does not look at an answer)
Issued(c, a, r) == [call |-> c, arg |-> a, result |-> r]

(***************************************************************************)
(* The state before any call.                                              *)
(***************************************************************************)
Unwritten == [written |-> FALSE, value |-> 0]

Init ==
    /\ pc = "idle" /\ fn = "none" /\ ret = 0 /\ failedAt = "none"
    /\ calls = <<>>
    /\ length = 0 /\ source = NULL
    /\ vertexFile = NoFile /\ fragmentFile = NoFile
    /\ vertexShader = 0 /\ fragmentShader = 0
    /\ programOut = Unwritten /\ contents = <<>>
    /\ heap = <<>>
    /\ shaders = {} /\ deleted = {} /\ programs = {} /\ nextId = 1
    /\ created = {} /\ builds = 0
    /\ program = 0 /\ name = "color" /\ type = GL_FLOAT /\ dimension = 0
    /\ amount = 0 /\ transpose = FALSE /\ location = 0 /\ data = "unset"
    /\ currentProgram = 0 /\ lastSuccess = 0 /\ lastPassed = 0

\* return -1; step is the step that failed
Fail(step) == ret' = 0 - 1 /\ failedAt' = step /\ pc' = "return"

\* the call goes on at label l
Goto(l) == pc' = l /\ UNCHANGED <<ret, failedAt>>

(***************************************************************************)
(* glcMakeShaderProgram                                                    *)
(***************************************************************************)
CallMakeShaderProgram ==
    /\ pc = "idle" /\ builds < MaxBuilds
    /\ fn' = "glcMakeShaderProgram" /\ builds' = builds + 1
    /\ length' = 0 /\ source' = NULL
    /\ Goto("M60")
    /\ UNCHANGED <<contents, calls, vertexFile, fragmentFile, vertexShader, fragmentShader,
                   programOut, heap, shaders, deleted, programs, nextId, created,
                   setterVars>>

\* faulty variant of M60: the failed fopen is reported but the call goes on
M60_fallthrough ==
    /\ pc = "M60"
    /\ \E opens \in BOOLEAN :
          IF opens
          THEN /\ vertexFile' = OpenFile
               /\ calls' = Append(calls, Issued("fopen", "vertex", "ok"))
          ELSE /\ vertexFile' = NullFile
               /\ calls' = Append(calls, Issued("fopen", "vertex", "fail"))
    /\ Goto("M65")
    /\ UNCHANGED <<contents, fn, length, source, fragmentFile, vertexShader, fragmentShader,
                   programOut, heap, shaders, deleted, programs, nextId, created,
                   builds, setterVars>>

\* lines 60-64: open the vertex shader file
M60 ==
    /\ pc = "M60"
    /\ \E opens \in BOOLEAN :
          IF opens
          THEN /\ vertexFile' = OpenFile
               /\ calls' = Append(calls, Issued("fopen", "vertex", "ok"))
               /\ Goto("M65")
          ELSE /\ vertexFile' = NullFile
               /\ calls' = Append(calls, Issued("fopen", "vertex", "fail"))
               /\ Fail("fopen vertex")
    /\ UNCHANGED <<contents, fn, length, source, fragmentFile, vertexShader, fragmentShader,
                   programOut, heap, shaders, deleted, programs, nextId, created,
                   builds, setterVars>>

\* lines 65-70: open the fragment shader file
M65 ==
    /\ pc = "M65"
    /\ \E opens \in BOOLEAN :
          IF opens
          THEN /\ fragmentFile' = OpenFile
               /\ calls' = Append(calls, Issued("fopen", "fragment", "ok"))
               /\ UNCHANGED vertexFile
               /\ Goto("M72")
          ELSE /\ fragmentFile' = NullFile
               /\ vertexFile' = fclose(vertexFile)
               /\ calls' = calls \o <<Issued("fopen", "fragment", "fail"),
                                       Issued("fclose", "vertex", "done")>>
               /\ Fail("fopen fragment")
    /\ UNCHANGED <<contents, fn, length, source, vertexShader, fragmentShader,
                   programOut, heap, shaders, deleted, programs, nextId, created,
                   builds, setterVars>>

\* lines 72-75 and 98-101: scan to EOF, rewind, allocate, read a file that
\* holds bytes.  calloc's result is not checked: when it is NULL the fread
\* that follows is undefined, and the call either dies there or (nothing to
\* copy) goes on with source NULL
ReadSource(bytes, which, len0, next) ==
    LET len == ScanToEOF(bytes, 0, len0)
        pos == fseek(OffsetAfterScan(bytes), 0)
    IN  /\ length' = len
        /\ contents' = bytes
        /\ \/ /\ heap' = Append(heap, "live")
              /\ calls' = calls \o <<Issued("fseek", which, "done"),
                                      Issued("calloc", which, "ok"),
                                      Issued("fread", which, "done")>>
              /\ source' = fread(calloc(SourceSize(len), Len(heap) + 1), len,
                                  bytes, pos)
              /\ Goto(next)
           \/ /\ source' = NULL
              /\ calls' = calls \o <<Issued("fseek", which, "done"),
                                      Issued("calloc", which, "fail"),
                                      Issued("fread", which, "done")>>
              /\ UNCHANGED heap
              /\ \/ Goto("abort")
                 \/ Len(bytes) = 0 /\ Goto(next)

\* lines 72-75: read the vertex shader source
M72 ==
    /\ pc = "M72"
    /\ \E bytes \in FileContents : ReadSource(bytes, "vertex", length, "M76")
    /\ UNCHANGED <<fn, vertexFile, fragmentFile, vertexShader, fragmentShader,
                   programOut, shaders, deleted, programs, nextId, created,
                   builds, setterVars>>

\* faulty variant of ReleaseAndFail: the source buffer is not freed
ReleaseAndFail_noFree(step, log) ==
    /\ vertexFile' = fclose(vertexFile)
    /\ fragmentFile' = fclose(fragmentFile)
    /\ UNCHANGED heap
    /\ calls' = calls \o log \o <<Issued("fclose", "vertex", "done"),
                                   Issued("fclose", "fragment", "done")>>
    /\ Fail(step)

\* fclose(vertexFile); fclose(fragmentFile); free(source); return -1;
ReleaseAndFail(step, log) ==
    /\ vertexFile' = fclose(vertexFile)
    /\ fragmentFile' = fclose(fragmentFile)
    /\ heap' = free(heap, source)
    /\ calls' = calls \o log \o <<Issued("fclose", "vertex", "done"),
                                   Issued("fclose", "fragment", "done"),
                                   Issued("free", "source", "done")>>
    /\ Fail(step)

\* glCreateShader/glCreateProgram: a fresh non-zero name, or 0 on failure
DriverCreate == {0, nextId}

\* lines 76-83: create the vertex shader object
M76 ==
    /\ pc = "M76"
    /\ \E h \in DriverCreate :
          /\ vertexShader' = h
          /\ IF h = 0
             THEN /\ ReleaseAndFail("glCreateShader vertex",
                                    <<Issued("glCreateShader", "vertex", "fail")>>)
                  /\ UNCHANGED <<shaders, created, nextId>>
             ELSE /\ shaders' = shaders \cup {h}
                  /\ created' = created \cup {h}
                  /\ nextId' = nextId + 1
                  /\ calls' = Append(calls, Issued("glCreateShader", "vertex", "ok"))
                  /\ Goto("M84")
                  /\ UNCHANGED <<vertexFile, fragmentFile, heap>>
    /\ UNCHANGED <<contents, fn, length, source, fragmentShader, programOut, deleted,
                   programs, builds, setterVars>>

\* glShaderSource, glCompileShader, glGetShaderiv(GL_COMPILE_STATUS)
CompileLog(which, status) ==
    <<Issued("glShaderSource", which, "done"),
      Issued("glCompileShader", which, "done"),
      Issued("glGetShaderiv", which, status)>>

\* lines 84-95: compile the vertex shader, then free its source.  With
\* source NULL glShaderSource is handed a null string: undefined in the
\* driver, the call may die there
M84 ==
    /\ pc = "M84"
    /\ \/ /\ source = NULL
          /\ calls' = Append(calls, Issued("glShaderSource", "vertex", "done"))
          /\ Goto("abort")
          /\ UNCHANGED <<vertexFile, fragmentFile, heap>>
       \/ \E success \in BOOLEAN :
             IF ~success
             THEN ReleaseAndFail("compile vertex",
                      CompileLog("vertex", "fail")
                          \o <<Issued("glGetShaderInfoLog", "vertex", "done")>>)
             ELSE /\ heap' = free(heap, source)
                  /\ calls' = calls \o CompileLog("vertex", "ok")
                                   \o <<Issued("free", "source", "done")>>
                  /\ Goto("M97")
                  /\ UNCHANGED <<vertexFile, fragmentFile>>
    /\ UNCHANGED <<contents, fn, length, source, vertexShader, fragmentShader, programOut,
                   shaders, deleted, programs, nextId, created, builds,
                   setterVars>>

\* lines 97-101: reset length, read the fragment shader source
M97 ==
    /\ pc = "M97"
    /\ \E bytes \in FileContents : ReadSource(bytes, "fragment", 0, "M102")
    /\ UNCHANGED <<fn, vertexFile, fragmentFile, vertexShader, fragmentShader,
                   programOut, shaders, deleted, programs, nextId, created,
                   builds, setterVars>>

\* lines 102-109: create the fragment shader object
M102 ==
    /\ pc = "M102"
    /\ \E h \in DriverCreate :
          /\ fragmentShader' = h
          /\ IF h = 0
             THEN /\ ReleaseAndFail("glCreateShader fragment",
                                    <<Issued("glCreateShader", "fragment", "fail")>>)
                  /\ UNCHANGED <<shaders, created, nextId>>
             ELSE /\ shaders' = shaders \cup {h}
                  /\ created' = created \cup {h}
                  /\ nextId' = nextId + 1
                  /\ calls' = Append(calls, Issued("glCreateShader", "fragment", "ok"))
                  /\ Goto("M110")
                  /\ UNCHANGED <<vertexFile, fragmentFile, heap>>
    /\ UNCHANGED <<contents, fn, length, source, vertexShader, programOut, deleted,
                   programs, builds, setterVars>>

\* lines 110-122: compile the fragment shader, then close both files and
\* free the source
M110 ==
    /\ pc = "M110"
    /\ \/ /\ source = NULL
          /\ calls' = Append(calls, Issued("glShaderSource", "fragment", "done"))
          /\ Goto("abort")
          /\ UNCHANGED <<vertexFile, fragmentFile, heap>>
       \/ \E success \in BOOLEAN :
             IF ~success
             THEN ReleaseAndFail("compile fragment",
                      CompileLog("fragment", "fail")
                          \o <<Issued("glGetShaderInfoLog", "fragment", "done")>>)
             ELSE /\ vertexFile' = fclose(vertexFile)
                  /\ fragmentFile' = fclose(fragmentFile)
                  /\ heap' = free(heap, source)
                  /\ calls' = calls \o CompileLog("fragment", "ok")
                                   \o <<Issued("fclose", "vertex", "done"),
                                        Issued("fclose", "fragment", "done"),
                                        Issued("free", "source", "done")>>
                  /\ Goto("M124")
    /\ UNCHANGED <<contents, fn, length, source, vertexShader, fragmentShader, programOut,
                   shaders, deleted, programs, nextId, created, builds,
                   setterVars>>

\* lines 124-129: create the program object, written through the out-parameter
M124 ==
    /\ pc = "M124"
    /\ \E h \in DriverCreate :
          /\ programOut' = [written |-> TRUE, value |-> h]
          /\ calls' = Append(calls, Issued("glCreateProgram", "program",
                                            IF h = 0 THEN "fail" ELSE "ok"))
          /\ IF h = 0
             THEN /\ Fail("glCreateProgram")
                  /\ UNCHANGED <<programs, created, nextId>>
             ELSE /\ programs' = programs \cup {h}
                  /\ created' = created \cup {h}
                  /\ nextId' = nextId + 1
                  /\ Goto("M130")
    /\ UNCHANGED <<contents, fn, length, source, vertexFile, fragmentFile, vertexShader,
                   fragmentShader, heap, shaders, deleted, builds, setterVars>>

\* lines 130-139: attach both shaders, link, check the link status
M130 ==
    /\ pc = "M130"
    /\ \E success \in BOOLEAN :
          IF ~success
          THEN /\ calls' = calls \o <<Issued("glAttachShader", "vertex", "done"),
                                       Issued("glAttachShader", "fragment", "done"),
                                       Issued("glLinkProgram", "program", "done"),
                                       Issued("glGetProgramiv", "program", "fail"),
                                       Issued("glGetProgramInfoLog", "program", "done")>>
               /\ Fail("link")
          ELSE /\ calls' = calls \o <<Issued("glAttachShader", "vertex", "done"),
                                       Issued("glAttachShader", "fragment", "done"),
                                       Issued("glLinkProgram", "program", "done"),
                                       Issued("glGetProgramiv", "program", "ok")>>
               /\ Goto("M142")
    /\ UNCHANGED <<fn, builderVars, setterVars>>

\* glDeleteShader(h), applied to the set of shader objects.  (The driver
\* keeps a shader that is still attached until its program goes; the model
\* records that the library has given the object up.)
glDeleteShader(set, h) == set \ {h}

\* faulty variant of M142: only the vertex shader object is deleted
M142_oneDelete ==
    /\ pc = "M142"
    /\ shaders' = glDeleteShader(shaders, vertexShader)
    /\ deleted' = deleted \cup {vertexShader}
    /\ calls' = Append(calls, Issued("glDeleteShader", "vertex", "done"))
    /\ ret' = 1 /\ pc' = "return"
    /\ UNCHANGED <<contents, fn, failedAt, length, source, vertexFile, fragmentFile,
                   vertexShader, fragmentShader, programOut, heap, programs,
                   nextId, created, builds, setterVars>>

\* lines 142-144: delete both shader objects, return 1
M142 ==
    /\ pc = "M142"
    /\ shaders' = glDeleteShader(glDeleteShader(shaders, vertexShader),
                                 fragmentShader)
    /\ deleted' = deleted \cup {vertexShader, fragmentShader}
    /\ calls' = calls \o <<Issued("glDeleteShader", "vertex", "done"),
                            Issued("glDeleteShader", "fragment", "done")>>
    /\ ret' = 1 /\ pc' = "return"
    /\ UNCHANGED <<contents, fn, failedAt, length, source, vertexFile, fragmentFile,
                   vertexShader, fragmentShader, programOut, heap, programs,
                   nextId, created, builds, setterVars>>

(***************************************************************************)
(* The uniform setters.                                                    *)
(***************************************************************************)
Setters == {"glcSetUniformx", "glcSetUniformxv", "glcSetUniformMatx"}

\* if(dimension < 1 || dimension > 4)
InvalidVecDimension(d) == d < 1 \/ d > 4

\* faulty variant of InvalidMatDimension: the vector setters' range
InvalidMatDimension_asVec(d) == d < 1 \/ d > 4

\* if(dimension < 2 || dimension > 4)
InvalidMatDimension(d) == d < 2 \/ d > 4

\* if(amount <= 0)
InvalidAmount(a) == a <= 0

\* faulty variant of InvalidLocation: the wrong sentinel
InvalidLocation_zero(loc) == loc = 0

\* if(location == -1)
InvalidLocation(loc) == loc = 0 - 1

\* faulty variant of VecUpload: the int row of dimension 3 names the
\* dimension 2 entry point
VecUpload_typo(t, d) ==
    IF d = 1
    THEN (IF t = GL_FLOAT THEN "glUniform1fv"
          ELSE IF t = GL_INT THEN "glUniform1iv" ELSE "glUniform1uiv")
    ELSE IF d = 2
    THEN (IF t = GL_FLOAT THEN "glUniform2fv"
          ELSE IF t = GL_INT THEN "glUniform2iv" ELSE "glUniform2uiv")
    ELSE IF d = 3
    THEN (IF t = GL_FLOAT THEN "glUniform3fv"
          ELSE IF t = GL_INT THEN "glUniform2iv" ELSE "glUniform3uiv")
    ELSE (IF t = GL_FLOAT THEN "glUniform4fv"
          ELSE IF t = GL_INT THEN "glUniform4iv" ELSE "glUniform4uiv")

\* the if/else chain over dimension with the conditional over type that
\* picks the upload entry point of glcSetUniformx and glcSetUniformxv
VecUpload(t, d) ==
    IF d = 1
    THEN (IF t = GL_FLOAT THEN "glUniform1fv"
          ELSE IF t = GL_INT THEN "glUniform1iv" ELSE "glUniform1uiv")
    ELSE IF d = 2
    THEN (IF t = GL_FLOAT THEN "glUniform2fv"
          ELSE IF t = GL_INT THEN "glUniform2iv" ELSE "glUniform2uiv")
    ELSE IF d = 3
    THEN (IF t = GL_FLOAT THEN "glUniform3fv"
          ELSE IF t = GL_INT THEN "glUniform3iv" ELSE "glUniform3uiv")
    ELSE (IF t = GL_FLOAT THEN "glUniform4fv"
          ELSE IF t = GL_INT THEN "glUniform4iv" ELSE "glUniform4uiv")

\* the if/else chain over dimension of glcSetUniformMatx
MatUpload(d) ==
    IF d = 2 THEN "glUniformMatrix2fv"
    ELSE IF d = 3 THEN "glUniformMatrix3fv"
    ELSE "glUniformMatrix4fv"

\* location = glGetUniformLocation(program, name); the driver answers loc
Lookup(loc) ==
    /\ location' = loc
    /\ calls' = Append(calls, [call |-> "glGetUniformLocation",
                               program |-> program, name |-> name,
                               result |-> loc])

\* faulty variant of glUseProgram: the call is left out
glUseProgram_missing == UNCHANGED <<currentProgram, calls>>

\* glUseProgram(program)
glUseProgram ==
    /\ currentProgram' = program
    /\ calls' = Append(calls, [call |-> "glUseProgram", program |-> program])

\* one upload call: entry point, location, element count, and what the
\* driver's current program is when it is issued
Upload(entry, count) ==
    calls' = Append(calls, [call |-> entry, location |-> location,
                            count |-> count, current |-> currentProgram])

CallSetUniformx ==
    /\ pc = "idle"
    /\ fn' = "glcSetUniformx"
    /\ program' \in ProgramArgs /\ name' \in Names
    /\ type' \in TypeTags /\ dimension' \in Dimensions
    /\ Goto("U163")
    /\ UNCHANGED <<calls, builderVars, amount, transpose, location, data,
                   currentProgram, lastSuccess, lastPassed>>

\* lines 163-167: validate dimension
U163 ==
    /\ pc = "U163"
    /\ IF InvalidVecDimension(dimension) THEN Fail("dimension") ELSE Goto("U168")
    /\ UNCHANGED <<fn, calls, builderVars, setterVars>>

\* faulty variant of U168: the program is made current before the looked-up
\* location is checked
U168_useFirst ==
    /\ pc = "U168"
    /\ currentProgram' = program
    /\ \E loc \in Locations :
          /\ Lookup(loc)
          /\ IF InvalidLocation(loc) THEN Fail("location") ELSE Goto("U174")
    /\ UNCHANGED <<fn, builderVars, program, name, type, dimension, amount,
                   transpose, data, lastSuccess, lastPassed>>

\* lines 168-173: look the uniform up
U168 ==
    /\ pc = "U168"
    /\ \E loc \in Locations :
          /\ Lookup(loc)
          /\ IF InvalidLocation(loc) THEN Fail("location") ELSE Goto("U174")
    /\ UNCHANGED <<fn, builderVars, program, name, type, dimension, amount,
                   transpose, data, currentProgram, lastSuccess, lastPassed>>

\* line 174: make the program current
U174 ==
    /\ pc = "U174"
    /\ glUseProgram
    /\ Goto("U176")
    /\ UNCHANGED <<fn, builderVars, program, name, type, dimension, amount,
                   transpose, location, data, lastSuccess, lastPassed>>

\* lines 176-195: allocate the value buffer and fill it from the arguments
U176 ==
    /\ pc = "U176"
    /\ \E allocated \in BOOLEAN :
          IF allocated
          THEN data' = "allocated" /\ Goto("U197")
          ELSE data' = "NULL" /\ Fail("malloc")
    /\ UNCHANGED <<fn, calls, builderVars, program, name, type, dimension,
                   amount, transpose, location, currentProgram, lastSuccess,
                   lastPassed>>

\* lines 197-215: upload, free the buffer, return 1
U197 ==
    /\ pc = "U197"
    /\ Upload(VecUpload(type, dimension), 1)
    /\ data' = "freed"
    /\ ret' = 1 /\ pc' = "return"
    /\ UNCHANGED <<fn, failedAt, builderVars, program, name, type, dimension,
                   amount, transpose, location, currentProgram, lastSuccess,
                   lastPassed>>

CallSetUniformxv ==
    /\ pc = "idle"
    /\ fn' = "glcSetUniformxv"
    /\ program' \in ProgramArgs /\ name' \in Names
    /\ type' \in TypeTags /\ dimension' \in Dimensions
    /\ amount' \in Amounts
    /\ Goto("V232")
    /\ UNCHANGED <<calls, builderVars, transpose, location, data,
                   currentProgram, lastSuccess, lastPassed>>

\* lines 232-236: validate dimension
V232 ==
    /\ pc = "V232"
    /\ IF InvalidVecDimension(dimension) THEN Fail("dimension") ELSE Goto("V237")
    /\ UNCHANGED <<fn, calls, builderVars, setterVars>>

\* lines 237-241: validate amount
V237 ==
    /\ pc = "V237"
    /\ IF InvalidAmount(amount) THEN Fail("amount") ELSE Goto("V242")
    /\ UNCHANGED <<fn, calls, builderVars, setterVars>>

\* lines 242-247: look the uniform up
V242 ==
    /\ pc = "V242"
    /\ \E loc \in Locations :
          /\ Lookup(loc)
          /\ IF InvalidLocation(loc) THEN Fail("location") ELSE Goto("V248")
    /\ UNCHANGED <<fn, builderVars, program, name, type, dimension, amount,
                   transpose, data, currentProgram, lastSuccess, lastPassed>>

\* line 248: make the program current
V248 ==
    /\ pc = "V248"
    /\ glUseProgram
    /\ Goto("V250")
    /\ UNCHANGED <<fn, builderVars, program, name, type, dimension, amount,
                   transpose, location, data, lastSuccess, lastPassed>>

\* lines 250-267: upload amount elements, return 1
V250 ==
    /\ pc = "V250"
    /\ Upload(VecUpload(type, dimension), amount)
    /\ ret' = 1 /\ pc' = "return"
    /\ UNCHANGED <<fn, failedAt, builderVars, setterVars>>

CallSetUniformMatx ==
    /\ pc = "idle"
    /\ fn' = "glcSetUniformMatx"
    /\ program' \in ProgramArgs /\ name' \in Names
    /\ dimension' \in Dimensions /\ amount' \in Amounts
    /\ transpose' \in BOOLEAN
    /\ Goto("X273")
    /\ UNCHANGED <<calls, builderVars, type, location, data, currentProgram,
                   lastSuccess, lastPassed>>

\* lines 273-277: validate dimension
X273 ==
    /\ pc = "X273"
    /\ IF InvalidMatDimension(dimension) THEN Fail("dimension") ELSE Goto("X278")
    /\ UNCHANGED <<fn, calls, builderVars, setterVars>>

\* lines 278-283: look the uniform up
X278 ==
    /\ pc = "X278"
    /\ \E loc \in Locations :
          /\ Lookup(loc)
          /\ IF InvalidLocation(loc) THEN Fail("location") ELSE Goto("X284")
    /\ UNCHANGED <<fn, builderVars, program, name, type, dimension, amount,
                   transpose, data, currentProgram, lastSuccess, lastPassed>>

\* line 284: make the program current
X284 ==
    /\ pc = "X284"
    /\ glUseProgram
    /\ Goto("X286")
    /\ UNCHANGED <<fn, builderVars, program, name, type, dimension, amount,
                   transpose, location, data, lastSuccess, lastPassed>>

\* lines 286-293: upload amount matrices, return 1
X286 ==
    /\ pc = "X286"
    /\ calls' = Append(calls, [call |-> MatUpload(dimension),
                               location |-> location, count |-> amount,
                               transpose |-> transpose,
                               current |-> currentProgram])
    /\ ret' = 1 /\ pc' = "return"
    /\ UNCHANGED <<fn, failedAt, builderVars, setterVars>>

(***************************************************************************)
(* The call returns to its caller: the locals go, the driver state stays.  *)
(***************************************************************************)
ReturnMakeShaderProgram ==
    /\ pc = "return" /\ fn = "glcMakeShaderProgram"
    /\ pc' = "idle" /\ fn' = "none" /\ ret' = 0 /\ failedAt' = "none"
    /\ calls' = <<>>
    /\ length' = 0 /\ source' = NULL
    /\ vertexFile' = NoFile /\ fragmentFile' = NoFile
    /\ vertexShader' = 0 /\ fragmentShader' = 0
    /\ programOut' = Unwritten /\ contents' = <<>>
    /\ heap' = <<>> /\ created' = {}
    /\ UNCHANGED <<shaders, deleted, programs, nextId, builds, setterVars>>

ReturnSetter ==
    /\ pc = "return" /\ fn \in Setters
    /\ pc' = "idle" /\ fn' = "none" /\ ret' = 0 /\ failedAt' = "none"
    /\ calls' = <<>>
    /\ lastSuccess' = IF ret = 1 THEN program ELSE lastSuccess
    /\ lastPassed' = IF ret = 1 \/ failedAt = "malloc" THEN program
                     ELSE lastPassed
    /\ program' = 0 /\ name' = "color" /\ type' = GL_FLOAT /\ dimension' = 0
    /\ amount' = 0 /\ transpose' = FALSE /\ location' = 0 /\ data' = "unset"
    /\ UNCHANGED <<builderVars, currentProgram>>

NextBuilder ==
    \/ CallMakeShaderProgram
    \/ M60 \/ M65 \/ M72 \/ M76 \/ M84 \/ M97 \/ M102 \/ M110 \/ M124
    \/ M130 \/ M142
    \/ ReturnMakeShaderProgram

NextSetter ==
    \/ CallSetUniformx \/ U163 \/ U168 \/ U174 \/ U176 \/ U197
    \/ CallSetUniformxv \/ V232 \/ V237 \/ V242 \/ V248 \/ V250
    \/ CallSetUniformMatx \/ X273 \/ X278 \/ X284 \/ X286
    \/ ReturnSetter

\* calls to glcMakeShaderProgram
SpecBuilder == Init /\ [][NextBuilder]_vars

\* calls to the three setters
SpecSetter == Init /\ [][NextSetter]_vars

(***************************************************************************)
(* Properties of glcMakeShaderProgram, checked under SpecBuilder.          *)
(***************************************************************************)
Builder == "glcMakeShaderProgram"

Returned(f) == pc = "return" /\ fn = f

HasEntry(c, a, r) == \E i \in 1..Len(calls) : calls[i] = Issued(c, a, r)

\* C1: when glcMakeShaderProgram returns failure, every driver object it
\* created during the call (vertex shader, fragment shader, program) has
\* been deleted, so nothing is leaked in the driver.
C1_NoDriverLeakOnFailure ==
    (Returned(Builder) /\ ret = 0 - 1)
        => created \cap (shaders \cup programs) = {}

\* both files open, both shader objects are created and compile, the
\* program object is created and the link succeeds
AllStepsSucceeded ==
    /\ HasEntry("fopen", "vertex", "ok")
    /\ HasEntry("fopen", "fragment", "ok")
    /\ HasEntry("glCreateShader", "vertex", "ok")
    /\ HasEntry("glGetShaderiv", "vertex", "ok")
    /\ HasEntry("glCreateShader", "fragment", "ok")
    /\ HasEntry("glGetShaderiv", "fragment", "ok")
    /\ HasEntry("glCreateProgram", "program", "ok")
    /\ HasEntry("glGetProgramiv", "program", "ok")

\* C2: when every step succeeds, glcMakeShaderProgram returns 1, the
\* out-parameter holds a non-zero program handle, and glDeleteShader has
\* been applied to both intermediate shader objects by the time it returns.
C2_SuccessReturn ==
    (Returned(Builder) /\ AllStepsSucceeded)
        => /\ ret = 1
           /\ programOut.written /\ programOut.value # 0
           /\ programOut.value \in programs
           /\ vertexShader # 0 /\ fragmentShader # 0
           /\ {vertexShader, fragmentShader} \subseteq deleted
           /\ {vertexShader, fragmentShader} \cap shaders = {}

C2_Witness == Returned(Builder) /\ AllStepsSucceeded /\ ret = 1

\* a FILE* that was never opened and never closed, or opened and closed once
FileReleased(f) ==
    \/ f.state \in {"unopened", "NULL"} /\ f.closes = 0
    \/ f.state = "closed" /\ f.closes = 1

\* C3: on every return path of glcMakeShaderProgram each file that was
\* opened has been closed exactly once and each allocated source buffer has
\* been freed exactly once; nothing is closed or freed twice at any point.
C3_HostResourcesReleased ==
    /\ fn = Builder =>
          /\ vertexFile.state # "badclose" /\ fragmentFile.state # "badclose"
          /\ \A i \in 1..Len(heap) : heap[i] # "doublefree"
    /\ Returned(Builder) =>
          /\ FileReleased(vertexFile) /\ FileReleased(fragmentFile)
          /\ \A i \in 1..Len(heap) : heap[i] = "freed"

C3_Witness ==
    /\ Returned(Builder) /\ failedAt = "compile fragment"
    /\ Len(heap) = 2
    /\ vertexFile.closes = 1 /\ fragmentFile.closes = 1

\* the steps of the builder in the order the code runs them
BuilderOrder ==
    << <<"fopen", "vertex">>, <<"fopen", "fragment">>,
       <<"fread", "vertex">>, <<"glCreateShader", "vertex">>,
       <<"glShaderSource", "vertex">>, <<"glCompileShader", "vertex">>,
       <<"glGetShaderiv", "vertex">>,
       <<"fread", "fragment">>, <<"glCreateShader", "fragment">>,
       <<"glShaderSource", "fragment">>, <<"glCompileShader", "fragment">>,
       <<"glGetShaderiv", "fragment">>,
       <<"glCreateProgram", "program">>,
       <<"glAttachShader", "vertex">>, <<"glAttachShader", "fragment">>,
       <<"glLinkProgram", "program">>, <<"glGetProgramiv", "program">>,
       <<"glDeleteShader", "vertex">>, <<"glDeleteShader", "fragment">> >>

IsStep(e) ==
    \E i \in 1..Len(BuilderOrder) : BuilderOrder[i] = <<e.call, e.arg>>

\* the steps the running call has executed (the releases on a failure path
\* are not steps)
Steps == SelectSeq(calls, IsStep)

\* C7: when the vertex file cannot be opened glcMakeShaderProgram returns
\* failure at once (the fragment file is not opened, no driver call is made,
\* the out-parameter is not written); in general the steps run in the listed
\* order and the first step that fails is the last step executed.
C7_ShortCircuit ==
    fn = Builder =>
        /\ \A i \in 1..Len(Steps) :
              /\ i <= Len(BuilderOrder)
              /\ <<Steps[i].call, Steps[i].arg>> = BuilderOrder[i]
              /\ Steps[i].result = "fail"
                    => i = Len(Steps) /\ pc = "return" /\ ret = 0 - 1
        /\ (pc = "return" /\ vertexFile.state = "NULL")
              => /\ ret = 0 - 1
                 /\ calls = <<Issued("fopen", "vertex", "fail")>>
                 /\ fragmentFile = NoFile
                 /\ ~programOut.written

C7_Witness ==
    /\ Returned(Builder) /\ vertexFile.state = "NULL"
    /\ failedAt = "fopen vertex"

\* buf holds the bytes of the file followed by a zero, inside the buffer
HoldsTerminated(buf, bytes) ==
    /\ Len(bytes) + 1 <= buf.size
    /\ \A i \in 1..Len(bytes) : buf.bytes[i] = bytes[i]
    /\ buf.bytes[Len(bytes) + 1] = 0
    /\ ~buf.overrun

Recognized == {GL_FLOAT, GL_INT, GL_UNSIGNED_INT}

Suffix(t) == IF t = GL_FLOAT THEN "f" ELSE IF t = GL_INT THEN "i" ELSE "ui"

Digit == <<"1", "2", "3", "4">>

\* glUniform<d><suffix>v
EntryNamed(t, d) == "glUniform" \o Digit[d] \o Suffix(t) \o "v"

UploadEntryPoints ==
    {EntryNamed(t, d) : t \in Recognized, d \in 1..4}
        \cup {"glUniformMatrix2fv", "glUniformMatrix3fv", "glUniformMatrix4fv"}

IsUpload(e) == e.call \in UploadEntryPoints

\* the upload calls the running call has issued
Uploads == SelectSeq(calls, IsUpload)

BadArguments ==
    \/ fn \in {"glcSetUniformx", "glcSetUniformxv"}
          /\ (dimension < 1 \/ dimension > 4)
    \/ fn = "glcSetUniformMatx" /\ (dimension < 2 \/ dimension > 4)
    \/ fn = "glcSetUniformxv" /\ amount <= 0

\* C4: a setter call with a dimension outside 1..4 (glcSetUniformx,
\* glcSetUniformxv) or outside 2..4 (glcSetUniformMatx), or with amount <= 0
\* (glcSetUniformxv), issues no upload call and returns -1.
C4_BadArgumentsRejected ==
    (fn \in Setters /\ BadArguments)
        => /\ Uploads = <<>>
           /\ pc = "return" => ret = 0 - 1

C4_Witness ==
    /\ Returned("glcSetUniformMatx") /\ dimension = 1 /\ ret = 0 - 1
    /\ failedAt = "dimension"

LookupFailed ==
    \E i \in 1..Len(calls) :
        calls[i].call = "glGetUniformLocation" /\ calls[i].result = 0 - 1

\* C5: in each setter, when the location lookup answers -1 the call returns
\* -1 and issues no upload call.
C5_UnknownUniformRejected ==
    (fn \in Setters /\ LookupFailed)
        => Uploads = <<>> /\ pc = "return" /\ ret = 0 - 1

C5_Witness ==
    /\ Returned("glcSetUniformxv") /\ LookupFailed /\ ret = 0 - 1
    /\ failedAt = "location"

\* C6: in glcSetUniformx and glcSetUniformxv each of the 12 pairs of a
\* recognized type and a dimension 1..4 routes to the entry point named
\* glUniform<dimension>{f,i,ui}v, the 12 entry points are pairwise distinct,
\* any other type tag routes as GL_UNSIGNED_INT does, and a successful call
\* issues exactly one upload, through that entry point.
C6_Dispatch ==
    /\ \A t \in Recognized, d \in 1..4 : VecUpload(t, d) = EntryNamed(t, d)
    /\ Cardinality({VecUpload(t, d) : t \in Recognized, d \in 1..4}) = 12
    /\ \A t \in TypeTags \ Recognized, d \in 1..4 :
          VecUpload(t, d) = VecUpload(GL_UNSIGNED_INT, d)
    /\ (fn \in {"glcSetUniformx", "glcSetUniformxv"} /\ pc = "return" /\ ret = 1)
          => /\ Len(Uploads) = 1
             /\ Uploads[1].call =
                    EntryNamed(IF type \in Recognized THEN type
                               ELSE GL_UNSIGNED_INT, dimension)

C6_Witness ==
    /\ Returned("glcSetUniformx") /\ ret = 1
    /\ type = "GL_BYTE" /\ dimension = 3
    /\ Len(Uploads) = 1 /\ Uploads[1].call = "glUniform3uiv"

\* C8: a setter call that returns 1 has issued exactly the driver calls
\* glGetUniformLocation, glUseProgram(program) and one upload, in this order,
\* the upload at the looked-up location; and no upload is ever issued while a
\* program other than the call's is current.
C8_UseBeforeUpload ==
    fn \in Setters =>
        /\ \A i \in 1..Len(calls) :
              IsUpload(calls[i]) => calls[i].current = program
        /\ (pc = "return" /\ ret = 1)
              => /\ Len(calls) = 3
                 /\ calls[1].call = "glGetUniformLocation"
                 /\ calls[1].program = program /\ calls[1].name = name
                 /\ calls[2].call = "glUseProgram"
                 /\ calls[2].program = program
                 /\ IsUpload(calls[3])
                 /\ calls[3].location = calls[1].result
                 /\ calls[3].current = program

C8_Witness ==
    /\ Returned("glcSetUniformxv") /\ ret = 1
    /\ program = 2 /\ lastPassed = 1
    /\ Len(calls) = 3 /\ calls[3].current = 2

\* C10: between calls the driver's current program is the program argument
\* of the most recent setter call that returned 1 (its initial value if none
\* did), a call that returns -1 having left it unchanged.
C10_CurrentIsLastSuccess == pc = "idle" => currentProgram = lastSuccess

\* C10 as amended: a setter call that fails at argument validation or at the
\* location lookup leaves the current program unchanged; a glcSetUniformx call
\* that fails at the allocation returns -1 with its program already current.
\* Between calls the current program is the program argument of the most
\* recent call that got past the location lookup.
C10_CurrentIsLastPassed ==
    /\ pc = "idle" => currentProgram = lastPassed
    /\ (fn \in Setters /\ pc = "return")
          => currentProgram =
                 IF ret = 1 \/ failedAt = "malloc" THEN program ELSE lastPassed

C10_Witness ==
    /\ pc = "idle" /\ lastPassed # lastSuccess
    /\ currentProgram = lastPassed

====
